---- MODULE Spec2Model ----
(***************************************************************************)
(* Model of nntrainer's FullyConnectedLayer (fc_layer.cpp) with its LoRA   *)
(* extension, and of the TensorV2 front-end (tensor_v2.cpp).               *)
(*                                                                         *)
(* Tensors are modelled by the 2-D matrix the numeric kernels see: a       *)
(* sequence of rows, each a sequence of integers.  Under NCHW the matrix   *)
(* of a TensorDim is (batch*channel*height) x width, under NHWC it is      *)
(* (batch*height*width) x channel.                                         *)
(***************************************************************************)
EXTENDS Integers, Sequences, FiniteSets, TLC

(* ------------------------------ bounds -------------------------------- *)
Unit == 2           \* the value props::Unit is set to
MaxRank == 1        \* props::LoraRank, when set, ranges over 0..MaxRank
InFeat == 2         \* feature extent of the input (width / channel)
Height == 2         \* height (sequence length) of the input
Garbage == 5        \* content of memory nobody has written yet
MaxFwd == 2         \* forwarding calls per behaviour
MaxGrad == 2        \* calcGradient calls per behaviour
MaxAxisArg == 4     \* checkContinuous arguments range over 0..MaxAxisArg

UIntBits == 16      \* modelled width of unsigned int (wraps like 32 bits)
MaxElems == 2       \* elements of an operand of operator==

(* ------------------------- program constants -------------------------- *)
UMax == 2^UIntBits - 1       \* std::numeric_limits<unsigned>::max()

Formats == {"NCHW", "NHWC"}
FloatTypes == {"FP32", "FP16"}
QuantTypes == {"QINT4", "QINT8"}

(* ------------------------- matrices (kernels) ------------------------- *)
Rows(m) == Len(m)
Cols(m) == Len(m[1])

Fill(r, c, v) == [i \in 1..r |-> [j \in 1..c |-> v]]

\* deterministic contents: element (i, j) is s + a * i + b * j
Ramp(r, c, s, a, b) == [i \in 1..r |-> [j \in 1..c |-> s + a * i + b * j]]

RECURSIVE DotSum(_, _, _, _, _)
DotSum(a, b, i, j, k) ==
  IF k = 0 THEN 0 ELSE a[i][k] * b[k][j] + DotSum(a, b, i, j, k - 1)

\* Tensor::dot(m, out, false, false): out = this x m
dot(a, b) ==
  [i \in 1..Rows(a) |-> [j \in 1..Cols(b) |-> DotSum(a, b, i, j, Cols(a))]]

DotCompatible(a, b) == Cols(a) = Rows(b)

Transpose(a) == [j \in 1..Cols(a) |-> [i \in 1..Rows(a) |-> a[i][j]]]

\* Tensor::add(m, out): out = this + m
add(a, b) == [i \in 1..Rows(a) |-> [j \in 1..Cols(a) |-> a[i][j] + b[i][j]]]

\* Tensor::add_i(bias): the 1 x unit bias is added to every row
add_i(h, b) == [i \in 1..Rows(h) |-> [j \in 1..Cols(h) |-> h[i][j] + b[1][j]]]

RECURSIVE ColSum(_, _, _)
ColSum(d, j, i) == IF i = 0 THEN 0 ELSE d[i][j] + ColSum(d, j, i - 1)

\* Tensor::sum({0, 1, 2}): sum over every axis but the feature axis
sum(d) == [i \in 1..1 |-> [j \in 1..Cols(d) |-> ColSum(d, j, Rows(d))]]

Scale(beta, m) == [i \in 1..Rows(m) |-> [j \in 1..Cols(m) |-> beta * m[i][j]]]

\* bool -> float conversion of the beta argument
Beta(accumulate) == IF accumulate THEN 1 ELSE 0

\* this.dot_deriv_wrt_2(m_deriv, output_deriv, false, false, beta):
\*   m_deriv = this^T x output_deriv + beta * m_deriv
dot_deriv_wrt_2(this, m_deriv, output_deriv, beta) ==
  add(dot(Transpose(this), output_deriv), Scale(beta, m_deriv))

\* this.dot_deriv_wrt_1(m, output_deriv, false, false, beta):
\*   this = output_deriv x m^T + beta * this
dot_deriv_wrt_1(this, m, output_deriv, beta) ==
  add(dot(output_deriv, Transpose(m)), Scale(beta, this))

\* Tensor::dequantize(out, axis): integer codes times the scale of the axis
dequantize(q) == [i \in 1..Rows(q) |-> [j \in 1..Cols(q) |-> 2 * q[i][j]]]

(* ------------------------------ TensorDim ----------------------------- *)
TensorDim(b, c, h, w) == [b |-> b, c |-> c, h |-> h, w |-> w]

\* extents of the matrix a TensorDim denotes under a format
MatRows(d, fm) == IF fm = "NCHW" THEN d.b * d.c * d.h ELSE d.b * d.h * d.w
MatCols(d, fm) == IF fm = "NCHW" THEN d.w ELSE d.c

(* ------------------------------- state -------------------------------- *)
VARIABLES
  pc,            \* life cycle of the layer object
  fc_props,      \* std::tuple<props::Unit, props::LoraRank>
  disable_bias,  \* props::DisableBias of layer_impl_props
  weight_idx,    \* std::array<unsigned, 2>, indexed by FCParams
  lora_idx,      \* std::array<unsigned, 3>, indexed by LORAParams
  ictx,          \* the InitLayerContext handed to finalize
  rc,            \* the RunLayerContext: tensors and gradients
  hist,          \* history of the calls made (observation only)
  enable_fp16,   \* build option ENABLE_FP16
  itensor,       \* TensorV2::itensor of the tensor under test
  tret,          \* outcome of the last TensorV2 call
  operand,       \* the backends of the two operands of operator==
  eq             \* outcome of the last operator== call

layerVars == <<pc, fc_props, disable_bias, weight_idx, lora_idx, ictx, rc, hist>>
tensorVars == <<enable_fp16, itensor, tret, operand, eq>>
vars == <<pc, fc_props, disable_bias, weight_idx, lora_idx, ictx, rc, hist,
          enable_fp16, itensor, tret, operand, eq>>

\* an optional property is <<>> when empty and <<v>> when set to v
\* the value of an array element that was never assigned
Indeterminate == 0 - 1

FCParams == {"weight", "bias"}
LORAParams == {"loraA", "loraB", "loraW"}
GradSlots == {"weight", "bias", "loraA", "loraB", "loraW"}

\* the dimension of the single input under a format
InputDim(fm) ==
  IF fm = "NCHW" THEN TensorDim(1, 1, Height, InFeat)
  ELSE TensorDim(1, InFeat, Height, 1)

NoHist ==
  [op |-> "none", err |-> "none", step |-> FALSE,
   nFwd |-> 0, nGrad |-> 0, lora_read |-> FALSE, stepped |-> TRUE,
   flags |-> [s \in GradSlots |-> FALSE],
   W0 |-> <<>>, sumW |-> <<>>, sumB |-> <<>>]

LayerInit ==
  /\ pc = "constructed"
  /\ fc_props = [unit |-> <<>>, lora_rank |-> <<>>]
  /\ disable_bias = <<>>
  /\ weight_idx = [p \in FCParams |-> UMax]
  /\ lora_idx = [p \in LORAParams |-> Indeterminate]
  /\ ictx \in {[numInputs |-> n, format |-> fm, in_dim |-> InputDim(fm),
                weight_type |-> wt, effDimFlag |-> 15,
                dynDimFlag |-> 0, output_dims |-> <<>>,
                weights |-> <<>>, tensors |-> <<>>] :
               n \in {1, 2}, fm \in Formats, wt \in {"FP32", "QINT8"}}
  /\ rc = "none"
  /\ hist = NoHist

\* itensor = nullptr
Nullptr == [type |-> "none", format |-> "none"]

NoCall ==
  [op |-> "none", threw |-> "none", format |-> "none", np1 |-> 0, np2 |-> 0,
   ret |-> FALSE]

Sides == {"lhs", "rhs"}

\* no operator== call made
NoEq ==
  [a |-> "none", b |-> "none", ret |-> FALSE, threw |-> "none",
   compared |-> "none", null_deref |-> FALSE]

NoOperand ==
  [type |-> "none", format |-> "none", dim |-> <<0, 0>>, data |-> <<>>]

EqualIdle ==
  /\ operand = [s \in Sides |-> NoOperand]
  /\ eq = NoEq

TensorIdle ==
  /\ enable_fp16 = FALSE
  /\ itensor = Nullptr
  /\ tret = NoCall
  /\ EqualIdle

(* ------------------------------ setProperty --------------------------- *)
\* The values the property loader accepts for the three properties the
\* layer reads: unit >= 1, lora_rank >= 0 (0 disables LoRA), disable_bias.
SetProperty(u, r, db) ==
  /\ pc = "constructed"
  /\ fc_props' = [unit |-> <<u>>, lora_rank |-> r]
  /\ disable_bias' = db
  /\ pc' = "configured"
  /\ UNCHANGED <<weight_idx, lora_idx, ictx, rc, hist>>
  /\ UNCHANGED tensorVars

(* -------------------------------- finalize ---------------------------- *)
\* disable_bias.empty() || disable_bias.get() == false
BiasEnabled == disable_bias = <<>> \/ disable_bias[1] = FALSE

\* (std::get<props::LoraRank>(fc_props).empty()) ? 0 : ....get()
FinalizeLoraRank ==
  IF fc_props.lora_rank = <<>> THEN 0 ELSE fc_props.lora_rank[1]

WeightDim(is_nchw, unit, in_dim) ==
  TensorDim(1, IF is_nchw THEN 1 ELSE unit, IF is_nchw THEN in_dim.w ELSE 1,
            IF is_nchw THEN unit ELSE in_dim.c)

BiasDim(is_nchw, unit) ==
  TensorDim(1, IF is_nchw THEN 1 ELSE unit, 1, IF is_nchw THEN unit ELSE 1)

LoraADim(is_nchw, lora_rank, in_dim) ==
  TensorDim(1, IF is_nchw THEN 1 ELSE lora_rank,
            IF is_nchw THEN in_dim.w ELSE 1,
            IF is_nchw THEN lora_rank ELSE in_dim.c)

LoraBDim(is_nchw, unit, lora_rank, in_dim) ==
  TensorDim(1, IF is_nchw THEN 1 ELSE unit,
            IF is_nchw THEN lora_rank ELSE 1,
            IF is_nchw THEN unit ELSE in_dim.c)

OutputDim(is_nchw, unit, in_dim) ==
  IF is_nchw THEN [in_dim EXCEPT !.w = unit] ELSE [in_dim EXCEPT !.c = unit]

\* requestWeight / requestTensor append a request and return its index
Request(reqs, dim, name) == Append(reqs, [dim |-> dim, name |-> name])

\* mutant: the input count tested after the dimension flags were set
FinalizeThrowsLate ==
  /\ pc = "configured"
  /\ ictx.numInputs # 1
  /\ pc' = "finalize_failed"
  /\ hist' = [hist EXCEPT !.op = "finalize", !.err = "invalid_argument"]
  /\ ictx' = [ictx EXCEPT !.effDimFlag = 9, !.dynDimFlag = 8]
  /\ UNCHANGED <<fc_props, disable_bias, weight_idx, lora_idx, rc>>
  /\ UNCHANGED tensorVars

\* NNTR_THROW_IF(context.getNumInputs() != 1, std::invalid_argument)
FinalizeThrows ==
  /\ pc = "configured"
  /\ ictx.numInputs # 1
  /\ pc' = "finalize_failed"
  /\ hist' = [hist EXCEPT !.op = "finalize", !.err = "invalid_argument"]
  /\ UNCHANGED <<fc_props, disable_bias, weight_idx, lora_idx, ictx, rc>>
  /\ UNCHANGED tensorVars

FinalizeOk ==
  /\ pc = "configured"
  /\ ictx.numInputs = 1
  /\ LET unit == fc_props.unit[1]
         lora_rank == FinalizeLoraRank
         is_nchw == ictx.format = "NCHW"
         in_dim == ictx.in_dim
         weight_dim == WeightDim(is_nchw, unit, in_dim)
         w1 == Request(ictx.weights, weight_dim, "weight")
         w2 == IF BiasEnabled
               THEN Request(w1, BiasDim(is_nchw, unit), "bias") ELSE w1
         w3 == IF lora_rank # 0
               THEN Request(w2, LoraADim(is_nchw, lora_rank, in_dim), "loraA")
               ELSE w2
         w4 == IF lora_rank # 0
               THEN Request(w3, LoraBDim(is_nchw, unit, lora_rank, in_dim),
                            "loraB")
               ELSE w3
         t1 == IF lora_rank # 0
               THEN Request(ictx.tensors, weight_dim, "weight_lora")
               ELSE ictx.tensors
     IN /\ ictx' = [ictx EXCEPT !.effDimFlag = 9, !.dynDimFlag = 8,
                      !.output_dims = <<OutputDim(is_nchw, unit, in_dim)>>,
                      !.weights = w4, !.tensors = t1]
        /\ weight_idx' =
             [weight |-> Len(w1) - 1,
              bias |-> IF BiasEnabled THEN Len(w2) - 1 ELSE weight_idx.bias]
        /\ lora_idx' =
             IF lora_rank # 0
             THEN [loraA |-> Len(w3) - 1, loraB |-> Len(w4) - 1,
                   loraW |-> Len(t1) - 1]
             ELSE lora_idx
  /\ pc' = "finalized"
  /\ hist' = [hist EXCEPT !.op = "finalize", !.err = "none"]
  /\ UNCHANGED <<fc_props, disable_bias, rc>>
  /\ UNCHANGED tensorVars

Finalize == FinalizeThrows \/ FinalizeOk

(* ---------------------- the run context (external) -------------------- *)
Quantized == ictx.weight_type \in QuantTypes

\* the matrix of a requested weight / tensor, filled from a seed
MatOf(req, s, a, b) ==
  Ramp(MatRows(req.dim, ictx.format), MatCols(req.dim, ictx.format), s, a, b)

ZeroOf(req, v) ==
  Fill(MatRows(req.dim, ictx.format), MatCols(req.dim, ictx.format), v)

HasLora == lora_idx.loraA # Indeterminate

\* contents of the input and of the incoming derivative of pass s
InputOf(req, s) == MatOf(req, s, 2, 1)
DerivativeOf(req, s) == MatOf(req, 2 * s, 1, 3)

\* The context allocates what finalize requested, initialises the weights,
\* binds input and incoming derivative, and leaves gradients and the
\* iteration-lifespan scratch tensor with whatever they held.
Allocate ==
  /\ pc = "finalized"
  /\ LET W == ictx.weights
         wq == W[weight_idx.weight + 1]
         od == [dim |-> ictx.output_dims[1]]
         id == [dim |-> ictx.in_dim]
         weight == MatOf(wq, 1, 3, 1)
         g == Garbage
     IN /\ rc' =
             [weight |-> weight,
              bias |-> IF BiasEnabled
                       THEN MatOf(W[weight_idx.bias + 1], 7, 0, 2)
                       ELSE <<>>,
              loraA |-> IF HasLora
                        THEN MatOf(W[lora_idx.loraA + 1], 0, 1, 1)
                        ELSE <<>>,
              loraB |-> IF HasLora
                        THEN MatOf(W[lora_idx.loraB + 1], 0, 2, 3)
                        ELSE <<>>,
              weight_lora |->
                IF HasLora THEN ZeroOf(ictx.tensors[lora_idx.loraW + 1], g)
                ELSE <<>>,
              input |-> InputOf(id, 0),
              hidden |-> ZeroOf(od, 0),
              derivative |-> DerivativeOf(od, 0),
              ret |-> ZeroOf(id, 0),
              djdw |-> ZeroOf(wq, g),
              djdb |-> IF BiasEnabled THEN ZeroOf(W[weight_idx.bias + 1], g)
                       ELSE <<>>,
              djdla |-> IF HasLora THEN ZeroOf(W[lora_idx.loraA + 1], g)
                        ELSE <<>>,
              djdlb |-> IF HasLora THEN ZeroOf(W[lora_idx.loraB + 1], g)
                        ELSE <<>>,
              djdlora_w |->
                IF HasLora THEN ZeroOf(ictx.tensors[lora_idx.loraW + 1], g)
                ELSE <<>>]
        /\ hist' = [hist EXCEPT !.W0 = weight,
                                !.sumW = ZeroOf(wq, 0),
                                !.sumB = Fill(1, fc_props.unit[1], 0)]
  /\ pc' = "ready"
  /\ UNCHANGED <<fc_props, disable_bias, weight_idx, lora_idx, ictx>>
  /\ UNCHANGED tensorVars

\* the neighbouring layers bind the input and the incoming derivative of
\* another pass
Rebind(s) ==
  /\ pc = "ready"
  /\ rc' = [rc EXCEPT
              !.input = InputOf([dim |-> ictx.in_dim], s),
              !.derivative = DerivativeOf([dim |-> ictx.output_dims[1]], s)]
  /\ rc'.input # rc.input
  /\ UNCHANGED <<pc, fc_props, disable_bias, weight_idx, lora_idx, ictx, hist>>
  /\ UNCHANGED tensorVars

(* ------------------------------ forwarding ---------------------------- *)
\* !std::get<props::LoraRank>(fc_props).empty()
LoraPropSet == fc_props.lora_rank # <<>>

\* forwarding_lora(context, weight): the scratch tensor and the weight
\* argument after the two statements
forwarding_lora(weight) ==
  LET weight_lora == dot(rc.loraA, rc.loraB)
  IN [weight_lora |-> weight_lora, weight |-> add(weight, weight_lora)]

\* loraA.dot(loraB, weight_lora) and weight.add(weight_lora, weight) need
\* matching extents
LoraShapesOk ==
  /\ DotCompatible(rc.loraA, rc.loraB)
  /\ Rows(rc.loraA) = Rows(rc.weight)
  /\ Cols(rc.loraB) = Cols(rc.weight)

\* hidden_ = input_ x weight (+ bias)
Hidden(input, weight) ==
  IF BiasEnabled THEN add_i(dot(input, weight), rc.bias)
  ELSE dot(input, weight)

Called(op, err) ==
  [hist EXCEPT !.op = op, !.err = err, !.step = FALSE]

ForwardingFrame ==
  /\ UNCHANGED <<fc_props, disable_bias, weight_idx, lora_idx, ictx>>
  /\ UNCHANGED tensorVars

\* lora_idx was never assigned: the reads of lines 158-160 use
\* indeterminate indices; the call crashes or goes on with foreign memory
ForwardingIndeterminate ==
  /\ pc = "ready" /\ hist.nFwd < MaxFwd
  /\ LoraPropSet /\ ~HasLora
  /\ hist' = [Called("forwarding", "undefined") EXCEPT
                !.nFwd = hist.nFwd + 1, !.lora_read = TRUE]
  /\ \/ pc' = "crashed" /\ rc' = rc
     \/ /\ pc' = pc
        /\ \E v \in {0, 1} :
             LET base == IF Quantized THEN dequantize(rc.weight) ELSE rc.weight
                 used == IF v = 0 THEN base
                         ELSE Fill(Rows(base), Cols(base), v)
             IN rc' = [rc EXCEPT
                         !.weight = IF Quantized THEN rc.weight ELSE used,
                         !.hidden = Hidden(rc.input, used)]
  /\ ForwardingFrame

\* the dot / add of forwarding_lora reject operands of mismatching extents
ForwardingLoraThrows ==
  /\ pc = "ready" /\ hist.nFwd < MaxFwd
  /\ LoraPropSet /\ HasLora /\ ~LoraShapesOk
  /\ hist' = [Called("forwarding", "dimension_mismatch") EXCEPT
                !.nFwd = hist.nFwd + 1, !.lora_read = TRUE]
  /\ UNCHANGED <<pc, rc>>
  /\ ForwardingFrame

ForwardingQuantized ==
  /\ pc = "ready" /\ hist.nFwd < MaxFwd
  /\ Quantized
  /\ LoraPropSet => (HasLora /\ LoraShapesOk)
  /\ LET weight_ == dequantize(rc.weight)
         l == forwarding_lora(weight_)
     IN rc' = IF LoraPropSet
              THEN [rc EXCEPT !.weight_lora = l.weight_lora,
                              !.hidden = Hidden(rc.input, l.weight)]
              ELSE [rc EXCEPT !.hidden = Hidden(rc.input, weight_)]
  /\ hist' = [Called("forwarding", "none") EXCEPT
                !.nFwd = hist.nFwd + 1,
                !.lora_read = hist.lora_read \/ LoraPropSet]
  /\ UNCHANGED pc
  /\ ForwardingFrame

ForwardingFloat ==
  /\ pc = "ready" /\ hist.nFwd < MaxFwd
  /\ ~Quantized
  /\ LoraPropSet => (HasLora /\ LoraShapesOk)
  /\ LET l == forwarding_lora(rc.weight)
     IN rc' = IF LoraPropSet
              THEN [rc EXCEPT !.weight_lora = l.weight_lora,
                              !.weight = l.weight,
                              !.hidden = Hidden(rc.input, l.weight)]
              ELSE [rc EXCEPT !.hidden = Hidden(rc.input, rc.weight)]
  /\ hist' = [Called("forwarding", "none") EXCEPT
                !.nFwd = hist.nFwd + 1,
                !.lora_read = hist.lora_read \/ LoraPropSet]
  /\ UNCHANGED pc
  /\ ForwardingFrame

Forwarding ==
  \/ ForwardingIndeterminate
  \/ ForwardingLoraThrows
  \/ ForwardingQuantized
  \/ ForwardingFloat

(* ------------------------ incremental_forwarding ---------------------- *)
\* unsigned int subtraction
USub(a, b) == (a - b + 2^UIntBits) % 2^UIntBits

StepArgs == (0..Height) \cup {UMax}

\* mutant: the view starts one row late
getSharedDataTensorLate(t, height, offset) ==
  [i \in 1..height |-> t[IF offset + i < Len(t) THEN offset + i + 1 ELSE 1]]

\* Tensor::getSharedDataTensor(dim, offset, true) with dim.height = height:
\* the rows of the buffer from row offset on
getSharedDataTensor(t, height, offset) ==
  [i \in 1..height |-> t[offset + i]]

\* a write through the view lands in the rows of the buffer it aliases
WriteShared(t, step, offset) ==
  [i \in 1..Rows(t) |->
     IF i > offset /\ i <= offset + Rows(step) THEN step[i - offset] ELSE t[i]]

\* mutant: the width computed without wrap-around
StepSizeRejectedSigned(from, to) == from # 0 /\ to - from # 1

\* if (from) { NNTR_THROW_IF(to - from != 1, ...) ... }
StepSizeRejected(from, to) == from # 0 /\ USub(to, from) # 1

\* from and to after the if statement of lines 216-221
NormFrom(from, to) == IF from # 0 THEN 0 ELSE from
NormTo(from, to) == IF from # 0 THEN 1 ELSE to

IncrementalFrame ==
  /\ UNCHANGED <<pc, fc_props, disable_bias, weight_idx, lora_idx, ictx>>
  /\ UNCHANGED tensorVars

IncrementalForwardingThrows(from, to) ==
  /\ pc = "ready"
  /\ StepSizeRejected(from, to)
  /\ hist' = [Called("incremental_forwarding", "invalid_argument") EXCEPT
                !.step = (from # 0)]
  /\ UNCHANGED rc
  /\ IncrementalFrame

IncrementalForwardingOk(from, to) ==
  /\ pc = "ready"
  /\ ~StepSizeRejected(from, to)
  /\ from = 0 => to \in 1..Height
  /\ hist' = [Called("incremental_forwarding", "none") EXCEPT
                !.step = (from # 0)]
  /\ LET height == NormTo(from, to) - NormFrom(from, to)
         input_step == getSharedDataTensor(rc.input, height, 0)
         hidden_step == Hidden(input_step, rc.weight)
     IN rc' = [rc EXCEPT !.hidden = WriteShared(rc.hidden, hidden_step, 0)]
  /\ IncrementalFrame

IncrementalForwarding(from, to) ==
  \/ IncrementalForwardingThrows(from, to)
  \/ IncrementalForwardingOk(from, to)

(* ------------------------------ calcDerivative ------------------------ *)
\* ret_.dot_deriv_wrt_1(weight, derivative_, false, false)
OutgoingDerivative(weight) ==
  dot_deriv_wrt_1(rc.ret, weight, rc.derivative, 0)

\* a kernel over a quantized weight and a float derivative is rejected
CalcDerivativeThrows ==
  /\ pc = "ready"
  /\ Quantized
  /\ hist' = Called("calcDerivative", "type_mismatch")
  /\ UNCHANGED <<pc, fc_props, disable_bias, weight_idx, lora_idx, ictx, rc>>
  /\ UNCHANGED tensorVars

CalcDerivativeOk ==
  /\ pc = "ready"
  /\ ~Quantized
  /\ rc' = [rc EXCEPT !.ret = OutgoingDerivative(rc.weight)]
  /\ hist' = Called("calcDerivative", "none")
  /\ UNCHANGED <<pc, fc_props, disable_bias, weight_idx, lora_idx, ictx>>
  /\ UNCHANGED tensorVars

CalcDerivative == CalcDerivativeThrows \/ CalcDerivativeOk

(* ------------------------------- calcGradient ------------------------- *)
\* the single-pass gradients of one call
SingleW == dot(Transpose(rc.input), rc.derivative)
SingleB == sum(rc.derivative)

\* lines 267-273: overwrite on first access, else add
BiasGradient(first) ==
  IF first THEN sum(rc.derivative) ELSE add(rc.djdb, sum(rc.derivative))

\* mutant: the flag is ignored and the gradient always accumulated
WeightGradientAccumulate(first) ==
  dot_deriv_wrt_2(rc.input, rc.djdw, rc.derivative, 1)

\* lines 276-278
WeightGradient(first) ==
  dot_deriv_wrt_2(rc.input, rc.djdw, rc.derivative, Beta(~first))

\* lines 293-295
LoraWGradient(first) ==
  dot_deriv_wrt_2(rc.input, rc.djdlora_w, rc.derivative, Beta(~first))

\* lines 296-298
LoraBGradient(first, djdlora_w) ==
  dot_deriv_wrt_2(rc.loraA, rc.djdlb, djdlora_w, Beta(~first))

\* lines 299-301: djdla.dot_batched_deriv_wrt_1(lora_B, djdlora_w, ..., beta)
LoraAGradient(first, djdlora_w) ==
  dot_deriv_wrt_1(rc.djdla, rc.loraB, djdlora_w, Beta(~first))

\* the flag of the slot each statement of calcGradient consults
FlagOfWeight(f) == f["weight"]
FlagOfBias(f) == f["bias"]
FlagOfLoraW(f) == f["loraW"]
FlagOfLoraBShared(f) == f["loraW"]   \* mutant: the scratch slot's flag
FlagOfLoraB(f) == f["loraB"]
FlagOfLoraA(f) == f["loraA"]

\* the extents the second and third kernel need
LoraGradShapesOk ==
  /\ Cols(rc.loraA) = Rows(rc.djdlb) /\ Cols(rc.djdlora_w) = Cols(rc.djdlb)
  /\ Cols(rc.djdlora_w) = Cols(rc.loraB) /\ Rows(rc.loraB) = Cols(rc.djdla)

\* the gradient slots one call writes
WrittenSlots ==
  IF ~LoraPropSet
  THEN IF BiasEnabled THEN {"weight", "bias"} ELSE {"weight"}
  ELSE IF ~HasLora THEN {}
       ELSE IF LoraGradShapesOk THEN {"loraW", "loraB", "loraA"}
            ELSE {"loraW"}

\* the first-access flags under which the call wrote those slots
WrittenFlags(f) == [s \in GradSlots |-> s \in WrittenSlots /\ f[s]]

\* first-access discipline of one optimisation step: every flag is true on
\* the first call and false on the later ones
Stepped(f) == \A s \in WrittenSlots : f[s] = (hist.nGrad = 0)

GradCalled(err, f) ==
  [Called("calcGradient", err) EXCEPT
     !.nGrad = hist.nGrad + 1,
     !.stepped = hist.stepped /\ Stepped(f),
     !.flags = WrittenFlags(f),
     !.sumW = add(hist.sumW, SingleW),
     !.sumB = add(hist.sumB, SingleB),
     !.lora_read = hist.lora_read \/ LoraPropSet]

GradientFrame ==
  /\ UNCHANGED <<fc_props, disable_bias, weight_idx, lora_idx, ictx>>
  /\ UNCHANGED tensorVars

CalcGradientBaseline(f) ==
  /\ pc = "ready" /\ hist.nGrad < MaxGrad
  /\ ~LoraPropSet
  /\ rc' = [rc EXCEPT
              !.djdb = IF BiasEnabled THEN BiasGradient(FlagOfBias(f))
                       ELSE rc.djdb,
              !.djdw = WeightGradient(FlagOfWeight(f))]
  /\ hist' = GradCalled("none", f)
  /\ UNCHANGED pc
  /\ GradientFrame

\* lora_idx was never assigned: indeterminate indices are read
CalcGradientIndeterminate(f) ==
  /\ pc = "ready" /\ hist.nGrad < MaxGrad
  /\ LoraPropSet /\ ~HasLora
  /\ hist' = GradCalled("undefined", f)
  /\ \/ pc' = "crashed" /\ rc' = rc
     \/ /\ pc' = pc
        /\ \E v \in {0, 1} :
             rc' = [rc EXCEPT
                      !.djdw = Fill(Rows(rc.djdw), Cols(rc.djdw), v)]
  /\ GradientFrame

\* the first kernel has written the scratch gradient when the second rejects
\* its operands
CalcGradientLoraThrows(f) ==
  /\ pc = "ready" /\ hist.nGrad < MaxGrad
  /\ LoraPropSet /\ HasLora /\ ~LoraGradShapesOk
  /\ rc' = [rc EXCEPT !.djdlora_w = LoraWGradient(FlagOfLoraW(f))]
  /\ hist' = GradCalled("dimension_mismatch", f)
  /\ UNCHANGED pc
  /\ GradientFrame

CalcGradientLora(f) ==
  /\ pc = "ready" /\ hist.nGrad < MaxGrad
  /\ LoraPropSet /\ HasLora /\ LoraGradShapesOk
  /\ LET djdlora_w == LoraWGradient(FlagOfLoraW(f))
     IN rc' = [rc EXCEPT
                 !.djdlora_w = djdlora_w,
                 !.djdlb = LoraBGradient(FlagOfLoraB(f), djdlora_w),
                 !.djdla = LoraAGradient(FlagOfLoraA(f), djdlora_w)]
  /\ hist' = GradCalled("none", f)
  /\ UNCHANGED pc
  /\ GradientFrame

CalcGradient(f) ==
  \/ CalcGradientBaseline(f)
  \/ CalcGradientIndeterminate(f)
  \/ CalcGradientLoraThrows(f)
  \/ CalcGradientLora(f)

(* ------------------------------ the layer ----------------------------- *)
PropRanks == {<<>>} \cup {<<r>> : r \in 0..MaxRank}
PropBias == {<<>>, <<TRUE>>, <<FALSE>>}
Seeds == {0, 1}

Init == LayerInit /\ TensorIdle

Setup ==
  \/ \E r \in PropRanks, db \in PropBias : SetProperty(Unit, r, db)
  \/ Finalize
  \/ Allocate

\* The forward path.  forwarding, incremental_forwarding and calcDerivative
\* read input, incoming derivative, weights and LoRA factors and write the
\* weight, the scratch tensor, the output and the outgoing derivative.
NextForward ==
  \/ Setup
  \/ \E s \in Seeds : Rebind(s)
  \/ Forwarding
  \/ \E from \in StepArgs, to \in StepArgs : IncrementalForwarding(from, to)
  \/ CalcDerivative

SpecForward == Init /\ [][NextForward]_vars

\* The gradient path.  calcGradient reads input, incoming derivative and
\* LoRA factors and writes gradients only, none of which the forward path
\* reads or writes.
NextGradient ==
  \/ Setup
  \/ \E s \in Seeds : Rebind(s)
  \/ \E f \in [GradSlots -> BOOLEAN] : CalcGradient(f)

\* calcGradient never looks at the data type of the weight
InitGradient == Init /\ ictx.weight_type = "FP32"

SpecGradient == InitGradient /\ [][NextGradient]_vars

(* ------------------------------- TensorV2 ----------------------------- *)
LayerIdle ==
  /\ LayerInit
  /\ ictx.numInputs = 1 /\ ictx.format = "NCHW" /\ ictx.weight_type = "FP32"

InitTensor ==
  /\ LayerIdle
  /\ enable_fp16 \in BOOLEAN
  /\ itensor = Nullptr
  /\ tret = NoCall
  /\ EqualIdle

DataTypes == FloatTypes \cup QuantTypes

\* mutant: one message for both failures
ConstructorThrowsOneMessage(d_type) ==
  IF d_type = "FP32" THEN "none"
  ELSE IF d_type = "FP16" /\ enable_fp16 THEN "none"
       ELSE "d_type is not compatible with itensor"

\* what the constructor throws for a data type: "none" when it constructs
ConstructorThrows(d_type) ==
  IF d_type = "FP32" THEN "none"
  ELSE IF d_type = "FP16"
       THEN IF enable_fp16 THEN "none" ELSE "enable-fp16 is not enabled"
       ELSE "d_type is not compatible with itensor"

\* TensorV2::TensorV2(std::string name_, Tformat fm, Tdatatype d_type)
TensorV2(fm, d_type) ==
  /\ itensor' = IF ConstructorThrows(d_type) = "none"
                THEN [type |-> d_type, format |-> fm]
                ELSE Nullptr
  /\ tret' = [NoCall EXCEPT !.op = "TensorV2",
                            !.threw = ConstructorThrows(d_type)]
  /\ UNCHANGED <<enable_fp16, operand, eq>>
  /\ UNCHANGED layerVars

\* a constructor call: itensor = nullptr, then the backend of the type or a
\* throw
Construct(op, fm, d_type) ==
  /\ itensor' = IF ConstructorThrows(d_type) = "none"
                THEN [type |-> d_type, format |-> fm]
                ELSE Nullptr
  /\ tret' = [NoCall EXCEPT !.op = op, !.threw = ConstructorThrows(d_type)]
  /\ UNCHANGED <<enable_fp16, operand, eq>>
  /\ UNCHANGED layerVars

\* TensorV2::TensorV2(const TensorDim &d, bool alloc_now, Initializer init,
\*                    std::string name), d of format fm and type d_type
TensorV2Dim(fm, d_type) == Construct("TensorV2(d, alloc_now)", fm, d_type)

\* TensorV2::TensorV2(const TensorDim &d, const void *buf)
TensorV2Buf(fm, d_type) == Construct("TensorV2(d, buf)", fm, d_type)

\* std::vector<unsigned int> continuous_order_nhwc = {0, 3, 1, 2}
continuous_order_nhwc == <<0, 3, 1, 2>>

\* mutant: the vector read as the sequence of axes in memory order
checkContinuousAsSequence(fm, np1, np2) ==
  IF fm = "NCHW"
  THEN np1 + 1 = np2
  ELSE \E k \in 1..3 :
         continuous_order_nhwc[k] = np1 /\ continuous_order_nhwc[k + 1] = np2

\* the value TensorV2::checkContinuous returns for arguments within 0..3
checkContinuous(fm, np1, np2) ==
  IF fm = "NCHW"
  THEN np1 + 1 = np2
  ELSE continuous_order_nhwc[np2 + 1] = continuous_order_nhwc[np1 + 1] + 1

\* if (np1 < 0 || np1 > 3 || np2 < 0 || np2 > 3) throw
AxisOutOfRange(np1, np2) == np1 < 0 \/ np1 > 3 \/ np2 < 0 \/ np2 > 3

CheckContinuous(np1, np2) ==
  /\ itensor # Nullptr
  /\ tret' =
       IF AxisOutOfRange(np1, np2)
       THEN [NoCall EXCEPT !.op = "checkContinuous",
               !.threw = "invalid_argument", !.format = itensor.format,
               !.np1 = np1, !.np2 = np2]
       ELSE [NoCall EXCEPT !.op = "checkContinuous",
               !.format = itensor.format, !.np1 = np1, !.np2 = np2,
               !.ret = checkContinuous(itensor.format, np1, np2)]
  /\ UNCHANGED <<enable_fp16, itensor, operand, eq>>
  /\ UNCHANGED layerVars

AxisArgs == 0..MaxAxisArg

NextTensor ==
  \/ \E fm \in Formats, d_type \in DataTypes : TensorV2(fm, d_type)
  \/ \E fm \in Formats, d_type \in DataTypes : TensorV2Dim(fm, d_type)
  \/ \E fm \in Formats, d_type \in DataTypes : TensorV2Buf(fm, d_type)
  \/ \E np1 \in AxisArgs, np2 \in AxisArgs : CheckContinuous(np1, np2)

SpecTensor == InitTensor /\ [][NextTensor]_vars

(* --------------------------- TensorV2::operator== --------------------- *)
\* the element values a buffer holds
Values == {0, 1}

Dims == {d \in (1..MaxElems) \X (1..MaxElems) : d[1] * d[2] <= MaxElems}

\* the tensors TensorV2(const TensorDim &d, const void *buf) constructs:
\* dimension d, the d[1] * d[2] elements of buf
Constructible ==
  UNION {{[type |-> d_type, format |-> fm, dim |-> d, data |-> buf] :
            d_type \in {t \in DataTypes : ConstructorThrows(t) = "none"},
            fm \in Formats,
            buf \in [1..(d[1] * d[2]) -> Values]} : d \in Dims}

\* the backend class a constructor instantiates for a data type
BackendOf(d_type) == IF d_type = "FP32" THEN "FloatTensor" ELSE "HalfTensor"

\* TensorBase::operator==: the tensor information
TensorInfoEq(a, b) ==
  a.dim = b.dim /\ a.format = b.format /\ a.type = b.type

\* FloatTensor::operator== / HalfTensor::operator==: the element values
TensorDataEq(a, b) == a.data = b.data

\* dynamic_cast<cls *>(t.itensor) is not null
DynamicCast(cls, t) == BackendOf(t.type) = cls

\* mutant: the element values compared without the tensor information
OperatorEqDataOnly(a, b) ==
  IF a.type = "FP32"
  THEN [NoEq EXCEPT !.ret = TensorDataEq(a, b), !.compared = "FloatTensor",
          !.null_deref = ~DynamicCast("FloatTensor", b)]
  ELSE [NoEq EXCEPT !.ret = TensorDataEq(a, b), !.compared = "HalfTensor",
          !.null_deref = ~DynamicCast("HalfTensor", b)]

\* bool TensorV2::operator==(const TensorV2 &rhs) const, a = *this, b = rhs
OperatorEq(a, b) ==
  IF TensorInfoEq(a, b)
  THEN IF a.type = "FP32"
       THEN [NoEq EXCEPT
               !.ret = TensorDataEq(a, b), !.compared = "FloatTensor",
               !.null_deref = ~(DynamicCast("FloatTensor", a)
                                /\ DynamicCast("FloatTensor", b))]
       ELSE IF a.type = "FP16"
            THEN IF enable_fp16
                 THEN [NoEq EXCEPT
                         !.ret = TensorDataEq(a, b),
                         !.compared = "HalfTensor",
                         !.null_deref = ~(DynamicCast("HalfTensor", a)
                                          /\ DynamicCast("HalfTensor", b))]
                 ELSE [NoEq EXCEPT !.threw = "FP16 is not enabled"]
            ELSE NoEq
  ELSE NoEq

\* operand[x] == operand[y]
Equals(x, y) ==
  /\ eq' = [OperatorEq(operand[x], operand[y]) EXCEPT !.a = x, !.b = y]
  /\ UNCHANGED <<enable_fp16, itensor, tret, operand>>
  /\ UNCHANGED layerVars

\* the two operands are inputs: any two constructible tensors
InitEqual ==
  /\ LayerIdle
  /\ enable_fp16 \in BOOLEAN
  /\ itensor = Nullptr
  /\ tret = NoCall
  /\ operand \in [Sides -> Constructible]
  /\ eq = NoEq

NextEqual == \E x \in Sides, y \in Sides : Equals(x, y)

SpecEqual == InitEqual /\ [][NextEqual]_vars

(* ======================= TensorV2::checkContinuous ==================== *)
ValidAxes == 0..3

Answered ==
  /\ tret.op = "checkContinuous" /\ tret.threw = "none"
  /\ tret.np1 \in ValidAxes /\ tret.np2 \in ValidAxes

\* C7 as stated: under NCHW checkContinuous(i, i+1) is true for every i in
\* 0..2; under NHWC checkContinuous(a, b) is true exactly for the ordered
\* pairs (0,3), (3,1), (1,2).
C7_AsStated ==
  Answered =>
    /\ (tret.format = "NCHW" /\ tret.np2 = tret.np1 + 1) => tret.ret
    /\ tret.format = "NHWC" =>
         (tret.ret <=> <<tret.np1, tret.np2>> \in {<<0, 3>>, <<3, 1>>, <<1, 2>>})

\* C7 amended: under NCHW checkContinuous(i, i+1) is true for every i in
\* 0..2; under NHWC checkContinuous(a, b) is true exactly for the ordered
\* pairs (0,2), (2,3), (3,1): the axes in memory order N, H, W, C.
C7_Continuous ==
  Answered =>
    /\ (tret.format = "NCHW" /\ tret.np2 = tret.np1 + 1) => tret.ret
    /\ tret.format = "NHWC" =>
         (tret.ret <=> <<tret.np1, tret.np2>> \in {<<0, 2>>, <<2, 3>>, <<3, 1>>})

C7_Witness ==
  /\ Answered /\ tret.format = "NHWC"
  /\ tret.np1 = 0 /\ tret.np2 = 2 /\ tret.ret

(* ========================= FullyConnectedLayer ======================== *)
Ready == pc = "ready"

\* LoRA active: the configured rank is greater than 0
LoraActive == FinalizeLoraRank > 0

\* the float weight the matrix multiply of a non-LoRA forwarding uses
BaseWeight == IF Quantized THEN dequantize(rc.weight) ELSE rc.weight

\* C1 as stated: with LoRA active, after any number of forwarding calls the
\* weight stored under the layer's weight index holds the values it held
\* before the first call.
C1_AsStated == (Ready /\ LoraActive) => rc.weight = hist.W0

\* C2 as stated: with LoRA rank > 0 and a non-quantized weight, every
\* forwarding call produces output = input x (W + loraA x loraB) (+ bias),
\* W being the weight stored before the first call.
C2_AsStated ==
  [][(ForwardingFloat /\ LoraActive) =>
       rc'.hidden =
         Hidden(rc.input, add(hist.W0, dot(rc.loraA, rc.loraB)))]_vars

NoLoraRequested ==
  /\ ictx.tensors = <<>>
  /\ \A i \in 1..Len(ictx.weights) :
       ictx.weights[i].name \notin {"loraA", "loraB"}

\* C3 as stated: with rank 0 (property unset, or set to 0) finalize
\* requests no LoRA weight or scratch tensor, forwarding and calcGradient
\* perform no LoRA step and read no LoRA index, and the forward output is
\* the non-LoRA baseline output.
C3_AsStated ==
  [][(Ready /\ FinalizeLoraRank = 0) =>
       /\ NoLoraRequested
       /\ Forwarding =>
            /\ ~hist'.lora_read
            /\ pc' = "ready"
            /\ rc'.hidden = Hidden(rc.input, BaseWeight)
       /\ (\E f \in [GradSlots -> BOOLEAN] : CalcGradient(f)) =>
            ~hist'.lora_read]_vars

\* C4: in the baseline mode, after k >= 1 calcGradient calls of one step
\* (flags true on the first call, false on the later ones) the weight
\* gradient is the sum of the k single-pass weight gradients and, with bias
\* enabled, the bias gradient the sum of the k single-pass bias gradients,
\* whatever the gradients held before.
C4_Accumulation ==
  (Ready /\ ~LoraPropSet /\ hist.stepped /\ hist.nGrad >= 1) =>
    /\ rc.djdw = hist.sumW
    /\ BiasEnabled => rc.djdb = hist.sumB

C4_Witness ==
  /\ Ready /\ ~LoraPropSet /\ BiasEnabled
  /\ hist.stepped /\ hist.nGrad = 2
  /\ rc.djdw = hist.sumW /\ rc.djdb = hist.sumB

\* a step made by an incremental_forwarding call
IncrementalStep == Ready /\ hist'.op = "incremental_forwarding"

StepCall(from, to) ==
  /\ from > 0 /\ ~LoraPropSet /\ ~Quantized
  /\ IncrementalForwardingOk(from, to)

\* C5 as stated: for every k > 0, incremental_forwarding(from = k,
\* to = k + 1) produces an output row equal to row k of the output that
\* forwarding produces on the same input, weight and bias.
C5_AsStated ==
  [][IncrementalStep =>
       \A from \in 1..(Height - 1) :
         StepCall(from, from + 1) =>
           \/ rc'.hidden[1] = Hidden(rc.input, rc.weight)[from + 1]
           \/ rc'.hidden[from + 1] = Hidden(rc.input, rc.weight)[from + 1]]_vars

\* C5 amended: for every k > 0, incremental_forwarding(from = k, to = k + 1)
\* writes output row 0 only, and that row equals row 0 of the output that
\* forwarding produces on the same input, weight and bias: it is computed
\* from input row 0, whatever k is.  (Every accepted call with from > 0 has
\* this outcome or is no step of the layer.)
C5_FirstRow ==
  [][IncrementalStep =>
       \/ /\ rc'.hidden[1] = Hidden(rc.input, rc.weight)[1]
          /\ \A i \in 2..Height : rc'.hidden[i] = rc.hidden[i]
       \/ \A from \in StepArgs, to \in StepArgs : ~StepCall(from, to)]_vars

C5_Witness ==
  /\ Ready /\ ~LoraPropSet /\ ~Quantized
  /\ hist.op = "incremental_forwarding" /\ hist.err = "none" /\ hist.step
  /\ rc.hidden[1] # rc.hidden[2]

C8_AsStated ==
  (pc \in {"finalized", "ready"} /\ LoraActive) =>
    LET fm == ictx.format
        W == ictx.weights[weight_idx.weight + 1].dim
        A == ictx.weights[lora_idx.loraA + 1].dim
        B == ictx.weights[lora_idx.loraB + 1].dim
        S == ictx.tensors[lora_idx.loraW + 1].dim
    IN /\ MatCols(A, fm) = FinalizeLoraRank
       /\ MatRows(B, fm) = FinalizeLoraRank
       /\ MatRows(A, fm) = MatRows(W, fm)
       /\ MatCols(B, fm) = MatCols(W, fm)
       /\ MatRows(W, fm) = InFeat /\ MatCols(W, fm) = fc_props.unit[1]
       /\ S = W

Accumulated(first, old, new) == IF first THEN new ELSE add(old, new)

C10_AsStated ==
  [][(CalcDerivativeOk /\ (LoraActive \/ ~LoraPropSet)) =>
       rc'.ret = dot(rc.derivative, Transpose(hist.W0))]_vars

\* C11: finalize on a context whose number of inputs is not exactly 1 fails
\* with invalid_argument, and at the point of failure the context is
\* unchanged: no dimension flag set, no output dimension set, no weight and
\* no tensor requested, no weight or LoRA index of the layer assigned.
C11_FailFast ==
  [][(pc = "configured" /\ ictx.numInputs # 1 /\ Finalize) =>
       /\ pc' = "finalize_failed"
       /\ hist'.op = "finalize" /\ hist'.err = "invalid_argument"
       /\ ictx' = ictx
       /\ ictx'.effDimFlag = 15 /\ ictx'.dynDimFlag = 0
       /\ ictx'.output_dims = <<>>
       /\ ictx'.weights = <<>> /\ ictx'.tensors = <<>>
       /\ \A p \in FCParams : weight_idx'[p] = UMax
       /\ \A p \in LORAParams : lora_idx'[p] = Indeterminate]_vars

C11_Witness ==
  /\ pc = "finalize_failed" /\ ictx.numInputs = 2
  /\ hist.op = "finalize" /\ hist.err = "invalid_argument"
  /\ fc_props.lora_rank = <<1>>

(* ======================== TensorV2 constructors ======================= *)
Constructs(fm, d_type) ==
  TensorV2(fm, d_type) \/ TensorV2Dim(fm, d_type) \/ TensorV2Buf(fm, d_type)

\* C12: each of the three constructors that take a data type fails when the
\* type is neither FP32 nor FP16 and fails when it is FP16 in a build
\* without FP16 support, with two different messages; in either failure no
\* backend is created; on success the tensor owns one backend whose
\* element type is the requested type.
C12_Constructors ==
  [][\A fm \in Formats, d_type \in DataTypes :
       Constructs(fm, d_type) =>
         IF d_type \notin {"FP32", "FP16"}
         THEN /\ tret'.threw = "d_type is not compatible with itensor"
              /\ itensor' = Nullptr
         ELSE IF d_type = "FP16" /\ ~enable_fp16
              THEN /\ tret'.threw = "enable-fp16 is not enabled"
                   /\ itensor' = Nullptr
              ELSE /\ tret'.threw = "none"
                   /\ itensor' # Nullptr
                   /\ itensor'.type = d_type /\ itensor'.format = fm]_vars

C12_Witness ==
  /\ tret.op = "TensorV2(d, buf)"
  /\ tret.threw = "enable-fp16 is not enabled"
  /\ itensor = Nullptr /\ ~enable_fp16

(* ========================= TensorV2::operator== ======================= *)
Compared == eq.a \in Sides /\ eq.b \in Sides

C14_AsStated ==
  (Ready /\ LoraActive /\ LoraGradShapesOk /\ hist.stepped
     /\ hist.op = "calcGradient" /\ hist.nGrad >= 1) =>
    /\ rc.djdlb = dot(Transpose(rc.loraA), hist.sumW)
    /\ rc.djdla = dot(hist.sumW, Transpose(rc.loraB))

\* the fields of the run context a call may write
Fields ==
  {"ret", "weight", "bias", "loraA", "loraB", "weight_lora", "input",
   "hidden", "derivative", "djdw", "djdb", "djdla", "djdlb", "djdlora_w"}

\* every field outside S keeps its value
OnlyWrites(S) == \A x \in Fields \ S : rc'[x] = rc[x]

\* a step made by a calcGradient call
GradientStep == Ready /\ hist'.nGrad = hist.nGrad + 1

\* C15 as stated: with the LoRA rank property set calcGradient leaves the
\* base weight gradient and the bias gradient unchanged and writes only the
\* scratch, loraA and loraB gradients; with the property not set it writes
\* only the base weight gradient and, if bias is enabled, the bias
\* gradient; in both modes it changes no weight value, no input and no
\* incoming derivative.
C15_AsStated ==
  [][GradientStep =>
       IF LoraPropSet
       THEN OnlyWrites({"djdlora_w", "djdla", "djdlb"})
       ELSE IF BiasEnabled
            THEN OnlyWrites({"djdw", "djdb"})
            ELSE OnlyWrites({"djdw"})]_vars

====
